---- MODULE Spec2Model ----
(***************************************************************************)
(* A model of src/template.js: the Template class (constructor, the ten    *)
(* field accessors, keys, createPass) and the asynchronous static loader   *)
(* Template.load.                                                          *)
(*                                                                         *)
(* JavaScript strings are sequences of one-character strings, so that the  *)
(* colour regular expression, the URL parser and the key-name derivation   *)
(* are computed character by character.  A JavaScript value is a record    *)
(* [t, s]: its type tag and a payload (the content of a string, the single *)
(* element of a one-element array, the href of a URL object, the printed   *)
(* form of a boolean or a number).                                         *)
(***************************************************************************)
EXTENDS Integers, Sequences, FiniteSets, TLC

VARIABLES
    templates,   \* handle -> Template object {style, fields, keysPath, password, images}
    fieldsHeap,  \* reference -> plain object (a mapping from keys to values)
    imagesHeap,  \* reference -> PassImages object (the set of images it holds)
    pass,        \* the arguments of the last `new Pass(...)`
    lastCall,    \* the last synchronous call: its name, arguments and whether it threw
    calls,       \* number of calls made by the caller so far
    fs,          \* the file system: directory path -> what is at that path
    cwd,         \* the working directory of the process
    pc,          \* per load() call: the await it is suspended at
    passJson,    \* per load() call: the local `passJson`
    keyName,     \* per load() call: the local `keyName`
    keyPassword, \* per load() call: the argument `keyPassword`
    outcome,     \* per load() call: pending, resolved, or the failure it rejected with
    steps        \* per load() call: the steps it has started, in order

apiVars  == <<templates, fieldsHeap, imagesHeap, pass, lastCall>>
loadVars == <<fs, cwd, pc, passJson, keyName, keyPassword, outcome, steps>>
vars     == <<templates, fieldsHeap, imagesHeap, pass, lastCall, calls,
              fs, cwd, pc, passJson, keyName, keyPassword, outcome, steps>>

(***************************************************************************)
(* Bounds of the model.                                                    *)
(***************************************************************************)
MaxCalls == 3

(***************************************************************************)
(* Characters and strings.                                                 *)
(***************************************************************************)
DigitChars == <<"0", "1", "2", "3", "4", "5", "6", "7", "8", "9">>
UpperChars == <<"A", "B", "C", "D", "E", "F", "G", "H", "I", "J", "K", "L", "M",
                "N", "O", "P", "Q", "R", "S", "T", "U", "V", "W", "X", "Y", "Z">>
LowerChars == <<"a", "b", "c", "d", "e", "f", "g", "h", "i", "j", "k", "l", "m",
                "n", "o", "p", "q", "r", "s", "t", "u", "v", "w", "x", "y", "z">>

IsDigit(c) == \E i \in DOMAIN DigitChars : DigitChars[i] = c
IsUpper(c) == \E i \in DOMAIN UpperChars : UpperChars[i] = c
IsLower(c) == \E i \in DOMAIN LowerChars : LowerChars[i] = c
IsSpace(c) == c \in {" ", "\t", "\n", "\r"}
IsSchemeChar(c) == IsUpper(c) \/ IsLower(c) \/ IsDigit(c) \/ c \in {"+", "-", "."}

DigitValue(c) == (CHOOSE i \in DOMAIN DigitChars : DigitChars[i] = c) - 1
ToLowerChar(c) ==
    IF IsUpper(c) THEN LowerChars[CHOOSE i \in DOMAIN UpperChars : UpperChars[i] = c] ELSE c
ToLowerCase(s) == [i \in DOMAIN s |-> ToLowerChar(s[i])]

\* Whether the literal `lit` occurs in s at position i.
LitAt(s, i, lit) ==
    /\ i + Len(lit) - 1 <= Len(s)
    /\ SubSeq(s, i, i + Len(lit) - 1) = lit

\* The first position at or after i that holds no white space (\s*).
RECURSIVE SkipSpaces(_, _)
SkipSpaces(s, i) ==
    IF i <= Len(s) /\ IsSpace(s[i]) THEN SkipSpaces(s, i + 1) ELSE i

\* The position after the longest run of at most n digits from i (\d{1,n}).
RECURSIVE DigitsEnd(_, _, _)
DigitsEnd(s, i, n) ==
    IF n > 0 /\ i <= Len(s) /\ IsDigit(s[i]) THEN DigitsEnd(s, i + 1, n - 1) ELSE i

\* The first position at or after i that holds none of the characters cs.
RECURSIVE SkipChars(_, _, _)
SkipChars(s, i, cs) ==
    IF i <= Len(s) /\ s[i] \in cs THEN SkipChars(s, i + 1, cs) ELSE i

\* The first position at or after i that holds one of the characters cs, or Len(s) + 1.
RECURSIVE FindChar(_, _, _)
FindChar(s, i, cs) ==
    IF i <= Len(s) /\ s[i] \notin cs THEN FindChar(s, i + 1, cs) ELSE i

\* parseInt(v, 10) of a string of decimal digits.
RECURSIVE parseInt(_)
parseInt(s) ==
    IF s = <<>> THEN 0
    ELSE 10 * parseInt(SubSeq(s, 1, Len(s) - 1)) + DigitValue(s[Len(s)])

(***************************************************************************)
(* String literals of the source and of the inputs.                        *)
(***************************************************************************)
S_rgbOpen   == <<"r", "g", "b", "(">>
S_pem       == <<".", "p", "e", "m">>
S_passDot   == <<"p", "a", "s", "s", ".">>
S_httpsProt == <<"h", "t", "t", "p", "s", ":">>
S_true      == <<"t", "r", "u", "e">>
S_false     == <<"f", "a", "l", "s", "e">>
S_undefined == <<"u", "n", "d", "e", "f", "i", "n", "e", "d">>
S_object    == <<"[", "o", "b", "j", "e", "c", "t", " ", "O", "b", "j", "e", "c", "t", "]">>
\* rgb(255,255,255)
S_white     == <<"r", "g", "b", "(", "2", "5", "5", ",", "2", "5", "5", ",", "2", "5", "5", ")">>
\* rgb( 1, 2,3 )
S_spaced    == <<"r", "g", "b", "(", " ", "1", ",", " ", "2", ",", "3", " ", ")">>
\* rgb(256,0,0)
S_over      == <<"r", "g", "b", "(", "2", "5", "6", ",", "0", ",", "0", ")">>
\* not-a-color
S_notColor  == <<"n", "o", "t", "-", "a", "-", "c", "o", "l", "o", "r">>
\* rgb(1 ,2,3)
S_spaceBeforeComma == <<"r", "g", "b", "(", "1", " ", ",", "2", ",", "3", ")">>
\* rgb(1000,0,0)
S_fourDigits == <<"r", "g", "b", "(", "1", "0", "0", "0", ",", "0", ",", "0", ")">>
\* rgb(1,2,3)x
S_trailing  == <<"r", "g", "b", "(", "1", ",", "2", ",", "3", ")", "x">>
\* https://a.b
S_https     == <<"h", "t", "t", "p", "s", ":", "/", "/", "a", ".", "b">>
\* HTTPS://A.b/c
S_httpsUpper == <<"H", "T", "T", "P", "S", ":", "/", "/", "A", ".", "b", "/", "c">>
\* http://a.b
S_http      == <<"h", "t", "t", "p", ":", "/", "/", "a", ".", "b">>
\* http://a.b/
S_httpHref  == <<"h", "t", "t", "p", ":", "/", "/", "a", ".", "b", "/">>
\* a.b
S_noScheme  == <<"a", ".", "b">>
S_one       == <<"1">>
S_X         == <<"X">>
\* pass.a
S_idA       == <<"p", "a", "s", "s", ".", "a">>
S_idB       == <<"b">>
\* a.pem, b.pem
S_keyA      == <<"a", ".", "p", "e", "m">>
S_keyB      == <<"b", ".", "p", "e", "m">>

(***************************************************************************)
(* JavaScript values.                                                      *)
(***************************************************************************)
StrV(s)    == [t |-> "string", s |-> s]
BoolV(b)   == [t |-> "boolean", s |-> IF b THEN S_true ELSE S_false]
NumV(s)    == [t |-> "number", s |-> s]
ArrayV(s)  == [t |-> "array", s |-> s]    \* the array [s] of one string
UrlV(s)    == [t |-> "URL", s |-> s]      \* a URL object whose href is s
UndefinedV == [t |-> "undefined", s |-> <<>>]
ObjectV    == [t |-> "object", s |-> <<>>]

\* ToString(value), as RegExp.prototype.exec and `new URL` apply it to their argument.
JSToString(v) ==
    CASE v.t = "undefined" -> S_undefined
      [] v.t = "object"    -> S_object
      [] OTHER             -> v.s

EmptyObject == [k \in {} |-> UndefinedV]

\* obj[k] = v
Put(obj, k, v) == [x \in DOMAIN obj \cup {k} |-> IF x = k THEN v ELSE obj[x]]

(***************************************************************************)
(* Collaborators: the style registry of ./constants.                       *)
(***************************************************************************)
PASS_STYLES == <<"boardingPass", "coupon", "eventTicket", "generic", "storeCard">>

IsPassStyle(style) == \E i \in DOMAIN PASS_STYLES : PASS_STYLES[i] = style

(***************************************************************************)
(* Template.validateColorValue.                                            *)
(***************************************************************************)
\* /^rgb\(\s*(\d{1,3}),\s*(\d{1,3}),\s*(\d{1,3})\s*\)$/.exec(s): the three captured
\* groups, or <<>> for null.  Each quantifier is followed by a character it cannot
\* itself match, so the greedy match is the only candidate.
ColorRegExpExec(s) ==
    LET r1 == SkipSpaces(s, Len(S_rgbOpen) + 1)
        r2 == DigitsEnd(s, r1, 3)
        g1 == SkipSpaces(s, r2 + 1)
        g2 == DigitsEnd(s, g1, 3)
        b1 == SkipSpaces(s, g2 + 1)
        b2 == DigitsEnd(s, b1, 3)
        e  == SkipSpaces(s, b2)
    IN  IF /\ LitAt(s, 1, S_rgbOpen)
           /\ r2 > r1 /\ LitAt(s, r2, <<",">>)
           /\ g2 > g1 /\ LitAt(s, g2, <<",">>)
           /\ b2 > b1 /\ LitAt(s, e, <<")">>)
           /\ e = Len(s)
        THEN <<SubSeq(s, r1, r2 - 1), SubSeq(s, g1, g2 - 1), SubSeq(s, b1, b2 - 1)>>
        ELSE <<>>

\* "ok" when the call returns, else the error it throws: a TypeError from
\* null.slice when the expression does not match, an Error for a channel out of range.
validateColorValue(value) ==
    LET m == ColorRegExpExec(JSToString(value))
    IN  IF m = <<>> THEN "TypeError"
        ELSE IF \E i \in 1..3 : parseInt(m[i]) < 0 \/ parseInt(m[i]) > 255
             THEN "Error"
             ELSE "ok"

(***************************************************************************)
(* new URL(input): the scheme is lower-cased; for http and https the host  *)
(* follows any run of slashes, is lower-cased and must not be empty, and   *)
(* an empty path becomes "/".                                              *)
(***************************************************************************)
NewURL(input) ==
    LET colon  == FindChar(input, 1, {":"})
        scheme == ToLowerCase(SubSeq(input, 1, colon - 1))
        rest   == SubSeq(input, colon + 1, Len(input))
        h1     == SkipChars(rest, 1, {"/", "\\"})
        h2     == FindChar(rest, h1, {"/", "\\", "?", "#"})
        host   == ToLowerCase(SubSeq(rest, h1, h2 - 1))
        path   == SubSeq(rest, h2, Len(rest))
        bad    == [ok |-> FALSE, protocol |-> <<>>, href |-> <<>>]
    IN  IF \/ colon > Len(input) \/ colon = 1
           \/ ~(IsUpper(input[1]) \/ IsLower(input[1]))
           \/ \E i \in 1..(colon - 1) : ~IsSchemeChar(input[i])
        THEN bad
        ELSE IF scheme \in {<<"h", "t", "t", "p">>, <<"h", "t", "t", "p", "s">>}
        THEN IF host = <<>> THEN bad
             ELSE [ok       |-> TRUE,
                   protocol |-> scheme \o <<":">>,
                   href     |-> scheme \o <<":", "/", "/">> \o host
                                \o (IF path = <<>> THEN <<"/">> ELSE path)]
        ELSE [ok |-> TRUE, protocol |-> scheme \o <<":">>,
              href |-> scheme \o <<":">> \o rest]

(***************************************************************************)
(* The field accessors called with one argument.  Each yields what the     *)
(* call does: the error it throws ("ok" for none) and the value it stores. *)
(***************************************************************************)
Stores(v)  == [error |-> "ok", value |-> v]
Throws(e)  == [error |-> e, value |-> UndefinedV]

passTypeIdentifierSet(v) == Stores(v)
teamIdentifierSet(v)     == Stores(v)
backgroundColorSet(v)    == Stores(v)
logoTextSet(v)           == Stores(v)
organizationNameSet(v)   == Stores(v)
groupingIdentifierSet(v) == Stores(v)

foregroundColorSet(v) ==
    IF validateColorValue(v) # "ok" THEN Throws(validateColorValue(v)) ELSE Stores(v)

labelColorSet(v) ==
    IF validateColorValue(v) # "ok" THEN Throws(validateColorValue(v)) ELSE Stores(v)

suppressStripShineSet(v) ==
    IF v.t # "boolean" THEN Throws("Error") ELSE Stores(v)

\* Mutant of webServiceURLSet: the argument is stored, not the normalised string.
webServiceURLSetRaw(v) ==
    LET url == IF v.t = "URL" THEN NewURL(v.s) ELSE NewURL(JSToString(v))
    IN  IF ~url.ok THEN Throws("TypeError")
        ELSE IF url.protocol # S_httpsProt THEN Throws("Error")
        ELSE Stores(v)

webServiceURLSet(v) ==
    LET url == IF v.t = "URL" THEN NewURL(v.s) ELSE NewURL(JSToString(v))
    IN  IF ~url.ok THEN Throws("TypeError")
        ELSE IF url.protocol # S_httpsProt THEN Throws("Error")
        ELSE Stores(StrV(url.href))

FieldNames ==
    {"passTypeIdentifier", "teamIdentifier", "backgroundColor", "foregroundColor",
     "labelColor", "logoText", "organizationName", "groupingIdentifier",
     "suppressStripShine", "webServiceURL"}

\* this[field](value) for a field accessor.
FieldSet(field, v) ==
    CASE field = "passTypeIdentifier" -> passTypeIdentifierSet(v)
      [] field = "teamIdentifier"     -> teamIdentifierSet(v)
      [] field = "backgroundColor"    -> backgroundColorSet(v)
      [] field = "foregroundColor"    -> foregroundColorSet(v)
      [] field = "labelColor"         -> labelColorSet(v)
      [] field = "logoText"           -> logoTextSet(v)
      [] field = "organizationName"   -> organizationNameSet(v)
      [] field = "groupingIdentifier" -> groupingIdentifierSet(v)
      [] field = "suppressStripShine" -> suppressStripShineSet(v)
      [] field = "webServiceURL"      -> webServiceURLSet(v)

(***************************************************************************)
(* Objects.  A Template is {style, fields, keysPath, password, images};    *)
(* `fields` and `images` are references into the heaps, so that two        *)
(* Templates (or a Template and a Pass) sharing one object is expressible. *)
(***************************************************************************)
Undefined == "<undefined>"

\* if (x): undefined and the empty string are falsy.
Truthy(x) == x \notin {Undefined, ""}

\* A reference no object of `used` has.
FreshRef(used) ==
    CHOOSE r \in 1..(Cardinality(used) + 1) :
        r \notin used /\ \A q \in 1..(r - 1) : q \in used

NoPass == [made |-> FALSE, template |-> 0, fields |-> 0, images |-> 0]
NoCall == [op |-> "none", error |-> "ok", style |-> "", entries |-> <<>>,
           fields |-> EmptyObject, invoked |-> {}]

\* Object.assign(target, source) on the contents of the two objects.
ObjectAssign(target, source) ==
    [k \in DOMAIN target \cup DOMAIN source |->
        IF k \in DOMAIN source THEN source[k] ELSE target[k]]

(***************************************************************************)
(* The constructor.                                                        *)
(***************************************************************************)
\* The names n with typeof this[n] === 'function' on a Template under construction:
\* the accessors, keys and createPass of the class, `constructor`, and the methods
\* inherited from Object.prototype.  (style and fields are own data properties.)
ObjectPrototypeFunctions ==
    {"toString", "toLocaleString", "valueOf", "hasOwnProperty", "isPrototypeOf",
     "propertyIsEnumerable"}
InstanceFunctions ==
    FieldNames \cup {"keys", "createPass", "constructor"} \cup ObjectPrototypeFunctions

\* this[field](value) inside the constructor: the error thrown, and the value stored
\* when `field` is an accessor.  Calling the class constructor without `new` throws a
\* TypeError; keys(value) assigns keysPath, which line 36 overwrites, and no password;
\* createPass and the Object.prototype methods change nothing of the Template.
Invoke(field, v) ==
    IF field \in FieldNames THEN FieldSet(field, v)
    ELSE IF field = "constructor" THEN Throws("TypeError")
    ELSE Stores(UndefinedV)

\* Object.entries(fields).forEach(...) from the state st = [error, fields, invoked].
RECURSIVE ForEachEntry(_, _)
ForEachEntry(entries, st) ==
    IF entries = <<>> THEN st
    ELSE LET field == Head(entries).k
             value == Head(entries).v
         IN  IF field \notin InstanceFunctions THEN ForEachEntry(Tail(entries), st)
             ELSE LET r == Invoke(field, value)
                  IN  IF r.error # "ok"
                      THEN [st EXCEPT !.error = r.error, !.invoked = @ \cup {field}]
                      ELSE ForEachEntry(Tail(entries),
                              [st EXCEPT !.invoked = @ \cup {field},
                                         !.fields = IF field \in FieldNames
                                                    THEN Put(@, field, r.value) ELSE @])

\* Mutant of Constructor: the style is not checked against the registry.
ConstructorAnyStyle(style, entries) ==
    ForEachEntry(entries, [error |-> "ok", fields |-> EmptyObject, invoked |-> {}])

\* new Template(style, fields) with entries = Object.entries(fields).
Constructor(style, entries) ==
    IF ~IsPassStyle(style)
    THEN [error |-> "Error", fields |-> EmptyObject, invoked |-> {}]
    ELSE ForEachEntry(entries, [error |-> "ok", fields |-> EmptyObject, invoked |-> {}])

\* The Template object a successful construction leaves.
NewTemplate(style, fieldsRef, imagesRef) ==
    [style |-> style, fields |-> fieldsRef, keysPath |-> "keys",
     password |-> Undefined, images |-> imagesRef]

\* Mutant of NewFieldsRef: one `fields` object, made once, for every Template.
NewFieldsRefShared == FreshRef({})

\* The reference of `this.fields = {}`: a new object.
NewFieldsRef == FreshRef(DOMAIN fieldsHeap)

\* The reference of `new PassImages()`: a new object.
NewImagesRef == FreshRef(DOMAIN imagesHeap)

New(h, style, entries) ==
    /\ h \notin DOMAIN templates
    /\ LET c == Constructor(style, entries)
       IN  /\ lastCall' = [NoCall EXCEPT !.op = "new", !.error = c.error, !.style = style,
                                         !.entries = entries, !.invoked = c.invoked]
           /\ IF c.error = "ok"
              THEN /\ templates' = templates @@ (h :> NewTemplate(style, NewFieldsRef, NewImagesRef))
                   /\ fieldsHeap' = fieldsHeap @@ (NewFieldsRef :> c.fields)
                   /\ imagesHeap' = imagesHeap @@ (NewImagesRef :> {})
              ELSE UNCHANGED <<templates, fieldsHeap, imagesHeap>>
    /\ UNCHANGED pass

(***************************************************************************)
(* The accessors called with a value, keys and createPass.                 *)
(***************************************************************************)
Accessor(h, field, r) ==
    /\ h \in DOMAIN templates
    /\ lastCall' = [NoCall EXCEPT !.op = field, !.error = r.error]
    /\ IF r.error = "ok"
       THEN fieldsHeap' = [fieldsHeap EXCEPT ![templates[h].fields] = Put(@, field, r.value)]
       ELSE UNCHANGED fieldsHeap
    /\ UNCHANGED <<templates, imagesHeap, pass>>

passTypeIdentifier(h, v) == Accessor(h, "passTypeIdentifier", passTypeIdentifierSet(v))
teamIdentifier(h, v)     == Accessor(h, "teamIdentifier", teamIdentifierSet(v))
backgroundColor(h, v)    == Accessor(h, "backgroundColor", backgroundColorSet(v))
foregroundColor(h, v)    == Accessor(h, "foregroundColor", foregroundColorSet(v))
labelColor(h, v)         == Accessor(h, "labelColor", labelColorSet(v))
logoText(h, v)           == Accessor(h, "logoText", logoTextSet(v))
organizationName(h, v)   == Accessor(h, "organizationName", organizationNameSet(v))
groupingIdentifier(h, v) == Accessor(h, "groupingIdentifier", groupingIdentifierSet(v))
suppressStripShine(h, v) == Accessor(h, "suppressStripShine", suppressStripShineSet(v))
webServiceURL(h, v)      == Accessor(h, "webServiceURL", webServiceURLSet(v))

\* keys(path, password) on the Template object t.
KeysOf(t, path, password) ==
    [t EXCEPT !.keysPath = IF Truthy(path) THEN path ELSE @,
              !.password = IF Truthy(password) THEN password ELSE @]

keys(h, path, password) ==
    /\ h \in DOMAIN templates
    /\ templates' = [templates EXCEPT ![h] = KeysOf(@, path, password)]
    /\ lastCall' = [NoCall EXCEPT !.op = "keys"]
    /\ UNCHANGED <<fieldsHeap, imagesHeap, pass>>

\* Mutant of CreatePassTarget: Object.assign(this.fields, fields).
CreatePassTargetOwnFields(h) == templates[h].fields

\* The first argument of Object.assign in createPass: the new object `{}`.
CreatePassTarget(h) == FreshRef({templates[x].fields : x \in DOMAIN templates})

\* The model keeps the last Pass only: the objects of earlier ones are dropped.
createPass(h, fields) ==
    /\ h \in DOMAIN templates
    /\ LET this   == templates[h]
           target == CreatePassTarget(h)
           heap0  == IF target \in DOMAIN fieldsHeap
                     THEN [fieldsHeap EXCEPT ![target] =
                              IF target = this.fields THEN @ ELSE EmptyObject]
                     ELSE fieldsHeap @@ (target :> EmptyObject)
           merged == ObjectAssign(ObjectAssign(heap0[target], heap0[this.fields]), fields)
           live   == {templates[x].fields : x \in DOMAIN templates} \cup {target}
       IN  /\ fieldsHeap' = [r \in live |-> IF r = target THEN merged ELSE heap0[r]]
           /\ pass' = [made |-> TRUE, template |-> h, fields |-> target,
                       images |-> this.images]
    /\ lastCall' = [NoCall EXCEPT !.op = "createPass", !.fields = fields]
    /\ UNCHANGED <<templates, imagesHeap>>

(***************************************************************************)
(* The callers' inputs.                                                    *)
(***************************************************************************)
Entry(k, v) == [k |-> k, v |-> v]

StyleInputs == {PASS_STYLES[i] : i \in DOMAIN PASS_STYLES} \cup {"bogus"}

ColorInputs ==
    {StrV(S_white), StrV(S_spaced), StrV(S_over), StrV(S_notColor),
     StrV(S_spaceBeforeComma), StrV(S_fourDigits), StrV(S_trailing),
     ArrayV(S_white), NumV(S_one), UndefinedV}

LabelInputs == {StrV(S_spaced), StrV(S_over), ArrayV(S_white)}

BooleanInputs == {BoolV(TRUE), BoolV(FALSE), NumV(S_one), StrV(S_true)}

UrlInputs ==
    {StrV(S_https), StrV(S_httpsUpper), StrV(S_http), StrV(S_noScheme),
     UrlV(S_httpHref), UndefinedV}

TextInputs == {StrV(S_X)}

EntriesInputs ==
    { <<>>,
      <<Entry("logoText", StrV(S_X))>>,
      <<Entry("logoText", StrV(S_X)), Entry("foo", StrV(S_X))>>,
      <<Entry("foregroundColor", StrV(S_white)), Entry("suppressStripShine", BoolV(TRUE)),
        Entry("webServiceURL", StrV(S_https))>>,
      <<Entry("logoText", StrV(S_X)), Entry("foregroundColor", StrV(S_over))>>,
      <<Entry("webServiceURL", StrV(S_http))>>,
      <<Entry("suppressStripShine", NumV(S_one))>>,
      <<Entry("labelColor", ArrayV(S_white))>>,
      <<Entry("keys", StrV(S_X)), Entry("teamIdentifier", StrV(S_X))>>,
      <<Entry("toString", StrV(S_X))>>,
      <<Entry("constructor", StrV(S_X))>> }

OverrideInputs ==
    { EmptyObject,
      [k \in {"foo"} |-> StrV(S_X)],
      [k \in {"logoText", "foregroundColor"} |-> StrV(S_notColor)] }

PathInputs     == {Undefined, "", "/k"}
PasswordInputs == {Undefined, "", "pw"}

ApiHandles == {1}
Procs      == {1, 2}

(***************************************************************************)
(* Spec: one caller constructing a Template and calling its methods.       *)
(***************************************************************************)
NoTemplates == [h \in {} |-> 0]

IdleLoads ==
    /\ fs = [d \in {} |-> 0]
    /\ cwd = "/"
    /\ pc = [p \in Procs |-> "idle"]
    /\ passJson = [p \in Procs |-> <<>>]
    /\ keyName = [p \in Procs |-> <<>>]
    /\ keyPassword = [p \in Procs |-> Undefined]
    /\ outcome = [p \in Procs |-> "idle"]
    /\ steps = [p \in Procs |-> <<>>]

Init ==
    /\ templates = NoTemplates
    /\ fieldsHeap = [r \in {} |-> EmptyObject]
    /\ imagesHeap = [r \in {} |-> {}]
    /\ pass = NoPass
    /\ lastCall = NoCall
    /\ calls = 0
    /\ IdleLoads

Call(A) ==
    /\ calls < MaxCalls
    /\ calls' = calls + 1
    /\ A
    /\ UNCHANGED loadVars

Next ==
    \/ \E h \in ApiHandles, style \in StyleInputs, entries \in EntriesInputs :
          Call(New(h, style, entries))
    \/ \E h \in ApiHandles, v \in TextInputs : Call(passTypeIdentifier(h, v))
    \/ \E h \in ApiHandles, v \in TextInputs : Call(teamIdentifier(h, v))
    \/ \E h \in ApiHandles, v \in TextInputs : Call(backgroundColor(h, v))
    \/ \E h \in ApiHandles, v \in ColorInputs : Call(foregroundColor(h, v))
    \/ \E h \in ApiHandles, v \in LabelInputs : Call(labelColor(h, v))
    \/ \E h \in ApiHandles, v \in TextInputs : Call(logoText(h, v))
    \/ \E h \in ApiHandles, v \in TextInputs : Call(organizationName(h, v))
    \/ \E h \in ApiHandles, v \in TextInputs : Call(groupingIdentifier(h, v))
    \/ \E h \in ApiHandles, v \in BooleanInputs : Call(suppressStripShine(h, v))
    \/ \E h \in ApiHandles, v \in UrlInputs : Call(webServiceURL(h, v))
    \/ \E h \in ApiHandles, path \in PathInputs, password \in PasswordInputs :
          Call(keys(h, path, password))
    \/ \E h \in ApiHandles, fields \in OverrideInputs : Call(createPass(h, fields))

Spec == Init /\ [][Next]_vars

(***************************************************************************)
(* The file system.  A path holds nothing, a regular file, or a directory  *)
(* with a definition file pass.json (absent, not JSON, or a JSON object    *)
(* given by its entries), images, regular files and sub-directories.       *)
(***************************************************************************)
NoDefinition  == [state |-> "absent", entries |-> <<>>]
BadDefinition == [state |-> "invalid", entries |-> <<>>]
Definition(entries) == [state |-> "object", entries |-> entries]

Missing == [kind |-> "missing", definition |-> NoDefinition, images |-> {},
            imagesFail |-> FALSE, files |-> {}, subdirs |-> {}]
RegularFile == [Missing EXCEPT !.kind = "file"]
Directory(definition, images, imagesFail, files, subdirs) ==
    [kind |-> "dir", definition |-> definition, images |-> images,
     imagesFail |-> imagesFail, files |-> files, subdirs |-> subdirs]

\* key in obj, for the object with the given entries.
HasKey(entries, key) == \E i \in DOMAIN entries : entries[i].k = key

\* obj[key], undefined when absent.
Get(entries, key) ==
    IF HasKey(entries, key)
    THEN entries[CHOOSE i \in DOMAIN entries : entries[i].k = key].v
    ELSE UndefinedV

(***************************************************************************)
(* Template.load(folderPath, keyPassword): one action per continuation of  *)
(* an await.  Call p loads Folder(p) into the Template with handle p.      *)
(***************************************************************************)
Folder(p) == IF p = 1 THEN "/a" ELSE "/b"

\* statAsync(path) of a directory path: the error it rejects with, or "ok".
StatError(path) == IF fs[path].kind = "missing" THEN "ENOENT" ELSE "ok"

\* The scan of PASS_STYLES.some(t => t in passJson) from index i: the first style
\* that is a key of passJson, Undefined when there is none.
RECURSIVE SomeStyle(_, _)
SomeStyle(entries, i) ==
    IF i > Len(PASS_STYLES) THEN Undefined
    ELSE IF HasKey(entries, PASS_STYLES[i]) THEN PASS_STYLES[i]
    ELSE SomeStyle(entries, i + 1)

\* Mutant of DetectStyle: every match assigns `type`, so the last one is kept.
DetectStyleLast(entries) ==
    LET present == {i \in DOMAIN PASS_STYLES : HasKey(entries, PASS_STYLES[i])}
    IN  IF present = {} THEN Undefined
        ELSE PASS_STYLES[CHOOSE i \in present : \A j \in present : j <= i]

DetectStyle(entries) == SomeStyle(entries, 1)

\* typeIdentifier.replace(/^pass\./, '') + '.pem'
KeyName(typeIdentifier) ==
    (IF LitAt(typeIdentifier, 1, S_passDot)
     THEN SubSeq(typeIdentifier, Len(S_passDot) + 1, Len(typeIdentifier))
     ELSE typeIdentifier) \o S_pem

\* The path statAsync(keyName) looks at: keyName is relative, so it is resolved
\* against the working directory of the process.
KeyProbeDirectory(p) == cwd

\* Mutant of Reject: the failure is caught and the call goes on to return.
RejectSwallowed(p, error) ==
    /\ pc' = [pc EXCEPT ![p] = "done"]
    /\ outcome' = [outcome EXCEPT ![p] = "resolved"]

Reject(p, error) ==
    /\ pc' = [pc EXCEPT ![p] = "failed"]
    /\ outcome' = [outcome EXCEPT ![p] = error]

Started(p, names) == steps' = [steps EXCEPT ![p] = @ \o names]

Load(p) ==
    /\ pc[p] = "idle"
    /\ pc' = [pc EXCEPT ![p] = "stat"]
    /\ outcome' = [outcome EXCEPT ![p] = "pending"]
    /\ Started(p, <<"stat">>)
    /\ UNCHANGED <<apiVars, calls, fs, cwd, passJson, keyName, keyPassword>>

AfterStat(p) ==
    /\ pc[p] = "stat"
    /\ IF StatError(Folder(p)) # "ok"
       THEN Reject(p, StatError(Folder(p))) /\ UNCHANGED steps
       ELSE IF fs[Folder(p)].kind # "dir"
       THEN Reject(p, "NotDirectory") /\ UNCHANGED steps
       ELSE /\ pc' = [pc EXCEPT ![p] = "read"]
            /\ Started(p, <<"read">>)
            /\ UNCHANGED outcome
    /\ UNCHANGED <<apiVars, calls, fs, cwd, passJson, keyName, keyPassword>>

AfterRead(p) ==
    /\ pc[p] = "read"
    /\ LET definition == fs[Folder(p)].definition
           type       == DetectStyle(definition.entries)
           c          == Constructor(type, definition.entries)
       IN  IF definition.state = "absent"
           THEN /\ Reject(p, "ENOENT")
                /\ UNCHANGED <<steps, passJson, templates, fieldsHeap, imagesHeap>>
           ELSE IF definition.state = "invalid"
           THEN /\ Reject(p, "SyntaxError")
                /\ UNCHANGED <<steps, passJson, templates, fieldsHeap, imagesHeap>>
           ELSE IF type = Undefined
           THEN /\ Reject(p, "UnknownPassStyle")
                /\ Started(p, <<"detect">>)
                /\ passJson' = [passJson EXCEPT ![p] = definition.entries]
                /\ UNCHANGED <<templates, fieldsHeap, imagesHeap>>
           ELSE IF c.error # "ok"
           THEN /\ Reject(p, c.error)
                /\ Started(p, <<"detect", "construct">>)
                /\ passJson' = [passJson EXCEPT ![p] = definition.entries]
                /\ UNCHANGED <<templates, fieldsHeap, imagesHeap>>
           ELSE /\ pc' = [pc EXCEPT ![p] = "images"]
                /\ Started(p, <<"detect", "construct", "images">>)
                /\ passJson' = [passJson EXCEPT ![p] = definition.entries]
                /\ templates' = templates @@ (p :> NewTemplate(type, NewFieldsRef, NewImagesRef))
                /\ fieldsHeap' = fieldsHeap @@ (NewFieldsRef :> c.fields)
                /\ imagesHeap' = imagesHeap @@ (NewImagesRef :> {})
                /\ UNCHANGED outcome
    /\ UNCHANGED <<pass, lastCall, calls, fs, cwd, keyName, keyPassword>>

\* template.images.loadFromDirectory(folderPath), of ./lib/images: it rejects, or it
\* fills the PassImages object with the images of the directory.
LoadFromDirectory(images, folderPath) ==
    IF fs[folderPath].imagesFail
    THEN [error |-> "ImagesError", heap |-> imagesHeap]
    ELSE [error |-> "ok",
          heap  |-> [imagesHeap EXCEPT ![images] = @ \cup fs[folderPath].images]]

AfterImages(p) ==
    /\ pc[p] = "images"
    /\ LET loaded         == LoadFromDirectory(templates[p].images, Folder(p))
           typeIdentifier == Get(passJson[p], "passTypeIdentifier")
       IN  IF loaded.error # "ok"
           THEN /\ Reject(p, loaded.error)
                /\ UNCHANGED <<steps, imagesHeap, keyName>>
           ELSE IF typeIdentifier.t # "string"
           THEN /\ Reject(p, "TypeError")
                /\ Started(p, <<"key">>)
                /\ imagesHeap' = loaded.heap
                /\ UNCHANGED keyName
           ELSE /\ pc' = [pc EXCEPT ![p] = "keyStat"]
                /\ Started(p, <<"key">>)
                /\ imagesHeap' = loaded.heap
                /\ keyName' = [keyName EXCEPT ![p] = KeyName(typeIdentifier.s)]
                /\ UNCHANGED outcome
    /\ UNCHANGED <<templates, fieldsHeap, pass, lastCall, calls, fs, cwd, passJson,
                   keyPassword>>

AfterKeyStat(p) ==
    /\ pc[p] = "keyStat"
    /\ LET dir == fs[KeyProbeDirectory(p)]
       IN  IF dir.kind = "dir" /\ keyName[p] \in dir.files
           THEN templates' = [templates EXCEPT ![p] = KeysOf(@, Folder(p), keyPassword[p])]
           ELSE UNCHANGED templates
    /\ pc' = [pc EXCEPT ![p] = "done"]
    /\ outcome' = [outcome EXCEPT ![p] = "resolved"]
    /\ UNCHANGED <<fieldsHeap, imagesHeap, pass, lastCall, calls, fs, cwd, passJson,
                   keyName, keyPassword, steps>>

(***************************************************************************)
(* LoadSpec: two concurrent load() calls, on /a and on /b, and the callers *)
(* using the Templates they return.                                        *)
(***************************************************************************)
MaxLoadCalls == 1

TicketEntries ==
    <<Entry("formatVersion", NumV(S_one)),
      Entry("passTypeIdentifier", StrV(S_idA)),
      Entry("eventTicket", ObjectV),
      Entry("logoText", StrV(S_X)),
      Entry("webServiceURL", StrV(S_https))>>

PlainTicketEntries ==
    <<Entry("passTypeIdentifier", StrV(S_idA)),
      Entry("eventTicket", ObjectV),
      Entry("foregroundColor", StrV(S_white))>>

TwoStylesEntries ==
    <<Entry("storeCard", ObjectV), Entry("coupon", ObjectV),
      Entry("passTypeIdentifier", StrV(S_idB))>>

BadFieldEntries ==
    <<Entry("coupon", ObjectV), Entry("passTypeIdentifier", StrV(S_idA)),
      Entry("foregroundColor", StrV(S_over))>>

NoIdentifierEntries == <<Entry("generic", ObjectV), Entry("logoText", StrV(S_X))>>

NoStyleEntries == <<Entry("passTypeIdentifier", StrV(S_idA)), Entry("logoText", StrV(S_X))>>

BundlesA ==
    { Missing,
      RegularFile,
      Directory(NoDefinition, {}, FALSE, {}, {}),
      Directory(BadDefinition, {}, FALSE, {}, {}),
      Directory(Definition(NoStyleEntries), {}, FALSE, {}, {}),
      Directory(Definition(BadFieldEntries), {"icon.png"}, FALSE, {S_keyA}, {}),
      Directory(Definition(NoIdentifierEntries), {"icon.png"}, FALSE, {}, {}),
      Directory(Definition(PlainTicketEntries), {"icon.png"}, TRUE, {S_keyA}, {}),
      Directory(Definition(PlainTicketEntries), {"icon.png"}, FALSE, {}, {S_keyA}),
      Directory(Definition(PlainTicketEntries), {"icon.png", "logo.png"}, FALSE, {}, {}),
      Directory(Definition(TicketEntries), {"icon.png"}, FALSE, {S_keyA}, {}) }

BundlesB ==
    { Missing,
      Directory(Definition(BadFieldEntries), {"logo.png"}, FALSE, {}, {}),
      Directory(Definition(TwoStylesEntries), {"logo.png"}, FALSE, {S_keyB}, {}),
      Directory(Definition(TwoStylesEntries), {}, FALSE, {S_keyA}, {}) }

WorkDirs ==
    { Directory(NoDefinition, {}, FALSE, {}, {}),
      Directory(NoDefinition, {}, FALSE, {S_keyA}, {}) }

InitLoad ==
    /\ templates = NoTemplates
    /\ fieldsHeap = [r \in {} |-> EmptyObject]
    /\ imagesHeap = [r \in {} |-> {}]
    /\ pass = NoPass
    /\ lastCall = NoCall
    /\ calls = 0
    /\ \E a \in BundlesA, b \in BundlesB, w \in WorkDirs :
          fs = [d \in {"/a", "/b", "/w"} |->
                   IF d = "/a" THEN a ELSE IF d = "/b" THEN b ELSE w]
    /\ cwd \in {"/a", "/b", "/w"}
    /\ pc = [p \in Procs |-> "idle"]
    /\ passJson = [p \in Procs |-> <<>>]
    /\ keyName = [p \in Procs |-> <<>>]
    /\ keyPassword \in [Procs -> {Undefined, "pw"}]
    /\ outcome = [p \in Procs |-> "idle"]
    /\ steps = [p \in Procs |-> <<>>]

\* A call on the Template that load() call h returned.
LoadedCall(h, A) ==
    /\ outcome[h] = "resolved"
    /\ calls < MaxLoadCalls
    /\ calls' = calls + 1
    /\ A
    /\ UNCHANGED loadVars

NextLoad ==
    \/ \E p \in Procs : Load(p)
    \/ \E p \in Procs : AfterStat(p)
    \/ \E p \in Procs : AfterRead(p)
    \/ \E p \in Procs : AfterImages(p)
    \/ \E p \in Procs : AfterKeyStat(p)
    \/ \E h \in Procs, v \in {StrV(S_idB)} : LoadedCall(h, logoText(h, v))
    \/ \E h \in Procs, v \in {StrV(S_spaced), StrV(S_over)} :
          LoadedCall(h, foregroundColor(h, v))
    \/ \E h \in Procs, fields \in {[k \in {"foo"} |-> StrV(S_X)]} :
          LoadedCall(h, createPass(h, fields))

LoadSpec == InitLoad /\ [][NextLoad]_vars

(***************************************************************************)
(* Properties.                                                             *)
(***************************************************************************)
\* The contents of the `fields` object of Template h.
FieldsOf(h) == fieldsHeap[templates[h].fields]

\* The contents of the PassImages object of Template h.
ImagesOf(h) == imagesHeap[templates[h].images]

\* The step in which load() call p returns its Template.
Returned(p) == outcome[p] # "resolved" /\ outcome'[p] = "resolved"

\* A value is an rgb string with the three channels in 0..255.
IsRgbString(v) ==
    /\ v.t = "string"
    /\ ColorRegExpExec(v.s) # <<>>
    /\ \A i \in 1..3 : parseInt(ColorRegExpExec(v.s)[i]) \in 0..255

\* C1 (as claimed): in every reachable state every stored foregroundColor and
\* labelColor is an rgb string with each channel in 0..255, every stored
\* suppressStripShine is a boolean and every stored webServiceURL is a string with
\* scheme https.
C1_StoredValuesSatisfyValidators ==
    \A h \in DOMAIN templates :
        LET f == FieldsOf(h)
        IN  /\ \A k \in {"foregroundColor", "labelColor"} \cap DOMAIN f : IsRgbString(f[k])
            /\ "suppressStripShine" \in DOMAIN f => f["suppressStripShine"].t = "boolean"
            /\ "webServiceURL" \in DOMAIN f =>
                  /\ f["webServiceURL"].t = "string"
                  /\ LitAt(f["webServiceURL"].s, 1, S_httpsProt)

\* C1, the rest of the claim, which the code keeps: a call that throws leaves the
\* Templates and every `fields` object as they were; and the same invariant with a
\* colour allowed to be any value whose string form is an rgb string.
C1_FailedCallLeavesFields ==
    [][lastCall'.error # "ok" => templates' = templates /\ fieldsHeap' = fieldsHeap]_vars

C1_StoredValuesPassValidators ==
    \A h \in DOMAIN templates :
        LET f == FieldsOf(h)
        IN  /\ \A k \in {"foregroundColor", "labelColor"} \cap DOMAIN f :
                  IsRgbString(StrV(JSToString(f[k])))
            /\ "suppressStripShine" \in DOMAIN f => f["suppressStripShine"].t = "boolean"
            /\ "webServiceURL" \in DOMAIN f =>
                  /\ f["webServiceURL"].t = "string"
                  /\ LitAt(f["webServiceURL"].s, 1, S_httpsProt)

\* The entries whose key is one of the ten known field names.
IsKnownEntry(e) == e.k \in FieldNames
KnownEntries(entries) == SelectSeq(entries, IsKnownEntry)

\* C2 (as claimed): a construction ends as it would without the keys that are not
\* known field names, invokes nothing but accessors of known fields, and on success
\* leaves only known field names in fields, keysPath "keys" and no password.
C2_UnknownKeysIgnored ==
    lastCall.op = "new" =>
        /\ lastCall.error = Constructor(lastCall.style, KnownEntries(lastCall.entries)).error
        /\ lastCall.invoked \subseteq FieldNames
        /\ lastCall.error = "ok" =>
              \A h \in DOMAIN templates :
                  /\ DOMAIN FieldsOf(h) \subseteq FieldNames
                  /\ templates[h].keysPath = "keys"
                  /\ templates[h].password = Undefined

\* C3: a createPass(overrideFields) step hands the Pass a new object holding the
\* shallow merge of the Template's fields with overrideFields, the override winning
\* on every common key, and leaves the Template (style, keysPath, password) and the
\* contents of its own fields object unchanged.
C3_CreatePassStep ==
    (lastCall'.op = "createPass" /\ calls' # calls) =>
        LET h      == pass'.template
            own    == fieldsHeap[templates[h].fields]
            merged == fieldsHeap'[pass'.fields]
            over   == lastCall'.fields
        IN  /\ pass'.made
            /\ DOMAIN merged = DOMAIN own \cup DOMAIN over
            /\ \A k \in DOMAIN merged :
                  merged[k] = IF k \in DOMAIN over THEN over[k] ELSE own[k]
            /\ pass'.fields # templates[h].fields
            /\ pass'.images = templates[h].images
            /\ templates' = templates
            /\ fieldsHeap'[templates[h].fields] = own

\* C3: every step is such a createPass step or no createPass step.
C3_CreatePassMergesAndPreserves == [][C3_CreatePassStep]_vars

\* C3 witness: createPass was called with an override of a key the Template holds.
C3_Witness ==
    /\ lastCall.op = "createPass"
    /\ pass.made
    /\ "logoText" \in DOMAIN lastCall.fields
    /\ "logoText" \in DOMAIN FieldsOf(pass.template)
    /\ FieldsOf(pass.template)["logoText"] # lastCall.fields["logoText"]

\* The steps of load() in the order of the source.
StepOrder == <<"stat", "read", "detect", "construct", "images", "key">>

HasStarted(p, step) == \E i \in DOMAIN steps[p] : steps[p][i] = step

\* C4 (as claimed): once the first five steps of a load() call have succeeded, so
\* that the key step has been started, the call never fails.
C4_KeyStepNeverFatal ==
    \A p \in Procs : HasStarted(p, "key") => pc[p] # "failed"

\* What load() of the directory of call p rejects with in its first five steps, from
\* the contents of the directory alone: the error and the number of steps started;
\* "ok" and 5 when all five succeed.
FirstFive(p) ==
    LET e == fs[Folder(p)]
        d == e.definition
        knownBad == \E i \in DOMAIN d.entries :
                       /\ d.entries[i].k \in InstanceFunctions
                       /\ Invoke(d.entries[i].k, d.entries[i].v).error # "ok"
    IN  IF e.kind = "missing" THEN <<"ENOENT", 1>>
        ELSE IF e.kind = "file" THEN <<"NotDirectory", 1>>
        ELSE IF d.state = "absent" THEN <<"ENOENT", 2>>
        ELSE IF d.state = "invalid" THEN <<"SyntaxError", 2>>
        ELSE IF \A i \in DOMAIN PASS_STYLES : ~HasKey(d.entries, PASS_STYLES[i])
             THEN <<"UnknownPassStyle", 3>>
        ELSE IF knownBad THEN <<"thrown by the constructor", 4>>
        ELSE IF e.imagesFail THEN <<"ImagesError", 5>>
        ELSE <<"ok", 5>>

\* The error of the first entry, in the order of the definition, whose call throws.
FirstThrown(entries) ==
    LET bad == {i \in DOMAIN entries :
                   /\ entries[i].k \in InstanceFunctions
                   /\ Invoke(entries[i].k, entries[i].v).error # "ok"}
        first == CHOOSE i \in bad : \A j \in bad : i <= j
    IN  Invoke(entries[first].k, entries[first].v).error

\* C5: the steps a load() call has started are always an initial part of the order
\* stat, read, detect, construct, images, key; a call whose directory makes one of the
\* first five steps fail ends rejected with the failure of that step, having started
\* no later step, returns no Template, and (failing before or in construction) has
\* created none; a call that is rejected stays rejected with the same failure.
C5_Settled(p) ==
    LET ff == FirstFive(p)
    IN  ff[1] # "ok" =>
            /\ pc[p] = "failed"
            /\ steps[p] = SubSeq(StepOrder, 1, ff[2])
            /\ outcome[p] # "resolved"
            /\ ff[2] # 4 => outcome[p] = ff[1]
            /\ ff[2] = 4 => outcome[p] = FirstThrown(fs[Folder(p)].definition.entries)
            /\ ff[2] <= 4 => p \notin DOMAIN templates

\* C5: load() is sequential and fail-fast, in every reachable state of both calls.
C5_SequentialFailFast ==
    \A p \in Procs :
        /\ Len(steps[p]) <= Len(StepOrder)
        /\ steps[p] = SubSeq(StepOrder, 1, Len(steps[p]))
        /\ pc[p] \in {"failed", "done"} => C5_Settled(p)
        /\ FirstFive(p)[1] # "ok" => Len(steps[p]) <= FirstFive(p)[2]
        /\ pc[p] = "failed" => outcome[p] \notin {"idle", "pending", "resolved"}

\* C5 witness: a call rejected by a failed image load, after a successful construction,
\* while the other call has returned its Template.
C5_Witness ==
    /\ pc[1] = "failed" /\ outcome[1] = "ImagesError"
    /\ steps[1] = SubSeq(StepOrder, 1, 5)
    /\ outcome[2] = "resolved"

\* The parsed definition as a mapping from its top-level keys to their values.
DefinitionContent(entries) ==
    [k \in {entries[i].k : i \in DOMAIN entries} |-> Get(entries, k)]

StyleKeys(entries) == {i \in DOMAIN PASS_STYLES : HasKey(entries, PASS_STYLES[i])}

\* C6 (as claimed): a load() of a definition with exactly one style key returns a
\* Template whose style is that key and whose fields equal the content of the definition.
C6_Original_Step ==
    \A p \in Procs :
        (Returned(p) /\ Cardinality(StyleKeys(passJson[p])) = 1) =>
            /\ HasKey(passJson[p], templates'[p].style)
            /\ fieldsHeap'[templates'[p].fields] = DefinitionContent(passJson[p])

\* C6 (as claimed): every returning step leaves fields equal to the definition.
C6_FieldsEqualDefinition == [][C6_Original_Step]_vars

\* C6 (amended): a load() of a definition with exactly one style key returns a Template
\* whose style is that key and whose fields hold exactly the entries of the definition
\* whose key is one of the ten known field names, each with the value of the
\* definition, webServiceURL with the normalised URL string of its value.
C6_Amended_Step ==
    \A p \in Procs :
        (Returned(p) /\ Cardinality(StyleKeys(passJson[p])) = 1) =>
            LET f == fieldsHeap'[templates'[p].fields]
                d == DefinitionContent(passJson[p])
            IN  /\ HasKey(passJson[p], templates'[p].style)
                /\ IsPassStyle(templates'[p].style)
                /\ DOMAIN f = DOMAIN d \cap FieldNames
                /\ \A k \in DOMAIN f :
                      f[k] = IF k = "webServiceURL"
                             THEN StrV(NewURL(JSToString(d[k])).href)
                             ELSE d[k]

\* C6 (amended): every returning step leaves in fields the known entries only.
C6_FieldsAreKnownEntries == [][C6_Amended_Step]_vars

\* C6 witness: a returned Template of a definition that holds a key that is no known
\* field and a webServiceURL that is not in normalised form.
C6_Witness ==
    /\ outcome[1] = "resolved" /\ calls = 0
    /\ HasKey(passJson[1], "formatVersion")
    /\ Get(passJson[1], "webServiceURL") = StrV(S_https)
    /\ FieldsOf(1)["webServiceURL"] # StrV(S_https)

\* The directory of call p holds, as a regular file, the key file named after the
\* passTypeIdentifier of its definition.
BundleHasKeyFile(p) ==
    LET id == Get(passJson[p], "passTypeIdentifier")
    IN  id.t = "string" /\ KeyName(id.s) \in fs[Folder(p)].files

\* C7 (as claimed): a returned Template has keysPath = folderPath, and the supplied
\* password, when the directory loaded holds the key file; otherwise it has keysPath
\* "keys" and no password.
C7_Step ==
    \A p \in Procs :
        Returned(p) =>
            IF BundleHasKeyFile(p)
            THEN /\ templates'[p].keysPath = Folder(p)
                 /\ keyPassword[p] # Undefined => templates'[p].password = keyPassword[p]
            ELSE /\ templates'[p].keysPath = "keys"
                 /\ templates'[p].password = Undefined

\* C7 (as claimed): every returning step configures keys from the bundle directory.
C7_KeysFollowBundleKeyFile == [][C7_Step]_vars

\* What load() call p ends with when it runs alone: a function of the directory it
\* loads, the working directory and its own arguments.
AloneOutcome(p) ==
    LET ff == FirstFive(p)
        id == Get(fs[Folder(p)].definition.entries, "passTypeIdentifier")
    IN  IF ff[1] = "thrown by the constructor"
        THEN FirstThrown(fs[Folder(p)].definition.entries)
        ELSE IF ff[1] # "ok" THEN ff[1]
        ELSE IF id.t # "string" THEN "TypeError"
        ELSE "resolved"

AloneStyle(p)  == DetectStyle(fs[Folder(p)].definition.entries)
AloneFields(p) == Constructor(AloneStyle(p), fs[Folder(p)].definition.entries).fields
AloneImages(p) == fs[Folder(p)].images

Settled(p) == pc[p] \in {"failed", "done"}

\* The Templates that load() calls have returned.
ReturnedTemplates == {p \in Procs : outcome[p] = "resolved"}

\* C8: under every interleaving of the two load() calls, a call settles with the
\* outcome it has alone (its failure, or a Template with the style, fields and images
\* it has alone); no step of one call, and no later call on one returned Template,
\* changes the fields or images of the other Template; and two returned Templates
\* share neither their fields object nor their image collection.
C8_SettlesAsAlone(p) ==
    (~Settled(p) /\ pc'[p] \in {"failed", "done"}) =>
        /\ outcome'[p] = AloneOutcome(p)
        /\ outcome'[p] = "resolved" =>
              /\ templates'[p].style = AloneStyle(p)
              /\ fieldsHeap'[templates'[p].fields] = AloneFields(p)
              /\ imagesHeap'[templates'[p].images] = AloneImages(p)

C8_OtherUntouched(p) ==
    \A q \in Procs \ {p} :
        (q \in DOMAIN templates /\ (pc'[p] # pc[p] \/ steps'[p] # steps[p])) =>
            /\ q \in DOMAIN templates'
            /\ templates'[q] = templates[q]
            /\ fieldsHeap'[templates'[q].fields] = fieldsHeap[templates[q].fields]
            /\ imagesHeap'[templates'[q].images] = imagesHeap[templates[q].images]

C8_CallTouchesOne ==
    (calls' # calls /\ ReturnedTemplates = Procs) =>
        \E h \in Procs : \A q \in Procs \ {h} :
            /\ templates'[q] = templates[q]
            /\ fieldsHeap'[templates'[q].fields] = fieldsHeap[templates[q].fields]
            /\ imagesHeap'[templates'[q].images] = imagesHeap[templates[q].images]

C8_NothingShared ==
    \A p, q \in ReturnedTemplates :
        p # q => /\ templates[p].fields # templates[q].fields
                 /\ templates[p].images # templates[q].images

\* C8: concurrent load() calls settle as alone, touch and share nothing of each other.
C8_ConcurrentLoadsIndependent ==
    /\ []C8_NothingShared
    /\ [][/\ \A p \in Procs : C8_SettlesAsAlone(p) /\ C8_OtherUntouched(p)
          /\ C8_CallTouchesOne]_vars

\* C8 witness: both calls have returned Templates, of different definitions, and a
\* field of one of them has been set afterwards.
C8_Witness ==
    /\ ReturnedTemplates = Procs
    /\ lastCall.op = "logoText" /\ calls = 1
    /\ FieldsOf(1) # FieldsOf(2)
    /\ ImagesOf(1) # ImagesOf(2)

\* C9: a construction with a style that is not in the registry throws and creates no
\* Template; the style of every Template is in the registry; and no step (accessor,
\* keys, createPass, load step) removes a Template or changes its style.
C9_Step ==
    /\ (lastCall'.op = "new" /\ calls' # calls /\ ~IsPassStyle(lastCall'.style)) =>
          /\ lastCall'.error # "ok"
          /\ templates' = templates
    /\ \A h \in DOMAIN templates :
          h \in DOMAIN templates' /\ templates'[h].style = templates[h].style

\* C9: the style of every Template is registered, always, and no step changes it.
C9_StyleInRegistry ==
    /\ [](\A h \in DOMAIN templates :
             \E i \in DOMAIN PASS_STYLES : templates[h].style = PASS_STYLES[i])
    /\ [][C9_Step]_vars

\* C9 witness: a construction with an unregistered style and valid fields has thrown,
\* and no Template exists.
C9_Witness ==
    /\ lastCall.op = "new" /\ ~IsPassStyle(lastCall.style) /\ lastCall.error # "ok"
    /\ lastCall.entries # <<>>
    /\ ForEachEntry(lastCall.entries, [error |-> "ok", fields |-> EmptyObject,
                                       invoked |-> {}]).error = "ok"
    /\ templates = NoTemplates

\* C10: once style detection has run in a load() call, the call has failed with the
\* unknown-style error exactly when no registered style is a top-level key of the
\* definition, and then no Template has been constructed; a Template constructed by
\* the call has the registered style of least registry index among the keys.
C10_StyleDetection ==
    \A p \in Procs :
        /\ outcome[p] = "UnknownPassStyle" => HasStarted(p, "detect")
        /\ HasStarted(p, "detect") =>
              /\ (outcome[p] = "UnknownPassStyle") <=> (StyleKeys(passJson[p]) = {})
              /\ StyleKeys(passJson[p]) = {} =>
                    /\ p \notin DOMAIN templates
                    /\ ~HasStarted(p, "construct")
                    /\ pc[p] = "failed"
              /\ p \in DOMAIN templates =>
                    \E i \in StyleKeys(passJson[p]) :
                        /\ templates[p].style = PASS_STYLES[i]
                        /\ \A j \in StyleKeys(passJson[p]) : i <= j

\* C10 witness: a Template loaded from a definition holding two registered styles,
\* the later one in registry order first in the file, while the other call failed on
\* an unknown style.
C10_Witness ==
    /\ outcome[2] = "resolved"
    /\ passJson[2][1].k = "storeCard"
    /\ HasKey(passJson[2], "coupon")
    /\ templates[2].style = "coupon"
    /\ outcome[1] = "UnknownPassStyle"

====
